---- MODULE Spec2Model ----
(***************************************************************************)
(* A model of the ezconf configuration loaders:                            *)
(*   httpconf.TlsConfigLoader, httpconf.HttpServerLoader and the generated *)
(*   MyAppConfigLoader / MyServiceConfigLoader / MyDBConfigLoader tree.    *)
(*                                                                         *)
(* Every Update method is a pure operator from the loader (and the files   *)
(* and flags it reads) to the loader after the call, the returned snapshot *)
(* and the returned error; the actions apply these operators to the state. *)
(***************************************************************************)
EXTENDS Integers, Sequences, FiniteSets, TLC

VARIABLES
    flags,   \* the package-level flag variables (myServiceNodeFlag, ...)
    fs,      \* the files the loaders read
    tls,     \* the TlsConfigLoader that HttpServerLoader.Tls may point to
    http,    \* MyServiceConfigLoader.ServerConfig, an HttpServerLoader
    svc,     \* MyAppConfigLoader.MyService
    db,      \* MyAppConfigLoader.MyDB
    app,     \* MyAppConfigLoader (its previous field)
    ret,     \* what the last Update call returned
    sets,    \* number of assignments the caller has made to loader fields
    heap,    \* the *tls.Config objects allocated so far, by address
    reg,     \* flagSetupper, the flag set and the goroutines registering flags
    server,  \* the *http.Server last built by NewHttpServer
    lib      \* the File, SecretFile and Secret values of a caller of package file

vars == <<flags, fs, tls, http, svc, db, app, ret, sets, heap, reg, server, lib>>

\* The variables that the loaders' Update methods, seen by value, leave alone.
others == <<heap, reg, server, lib>>

-----------------------------------------------------------------------------
(* Bounds of the model.                                                    *)

\* The caller assigns at most MaxSets times to flags, files and loader fields.
MaxSets == 3

\* Number of distinct non-default values a caller may give a string field.
NumNames == 1

\* TlsConfigLoader.Update allocates at most MaxPolicies policy objects.
MaxPolicies == 3

\* Number of goroutines that call SetupMyAppConfigFlags or NewLoader.
NumCallers == 2

-----------------------------------------------------------------------------
(* optional.Option[T]: None is the empty tuple, Some(v) is <<v>>.          *)

None == <<>>

Some(v) == <<v>>

IsSome(o) == o # None

IsNone(o) == o = None

\* optional.GetOr(o, d): the value when present, else d.
GetOr(o, d) == IF o # None THEN o[1] ELSE d

\* o.Get(): (value, ok), the zero value z of the type when absent.
Get(o, z) == IF o # None THEN [val |-> o[1], ok |-> TRUE] ELSE [val |-> z, ok |-> FALSE]

\* A precedence primitive that prefers its second argument.
OrRightBiased(a, b) == IF b # <<>> THEN b ELSE a

\* optional.Or(a, b): a when a is present, else b.
Or(a, b) == IF a # None THEN a ELSE b

NilErr == "<nil>"

\* The element of a one-element set: Only({F(x) : x \in {e}}) is F(e) with e
\* evaluated once.
Only(S) == CHOOSE x \in S : TRUE

NamePool == <<"alpha", "beta", "gamma", "delta">>

Names == {NamePool[i] : i \in 1..NumNames}

OptNames == {None} \cup {Some(n) : n \in Names}

OptBool == {None, Some(TRUE), Some(FALSE)}

-----------------------------------------------------------------------------
(* TlsConfigLoader                                                         *)

DefaultMyServiceConfigTlsCert == "/etc/myapp/tls/cert.pem"

DefaultMyServiceConfigTlsPrivateKey == "/etc/myapp/tls/key.pem"

\* A nil *tls.Config.
NilTlsConfig ==
    [ nil |-> TRUE, Certificates |-> <<>>, MinVersion |-> "",
      CurvePreferences |-> <<>>, CipherSuites |-> <<>>,
      InsecureSkipVerify |-> FALSE, ServerName |-> "" ]

\* The zero TlsConfigLoader.
ZeroTlsConfigLoader ==
    [ TlsEnabled |-> None, ServerName |-> None, PrivateKey |-> None,
      Certificate |-> None, InsecureSkipVerify |-> None, prev |-> NilTlsConfig ]

\* file.PrivateKey.ReadCert(cert): the certificate pair of the two files, or
\* an error when one of them cannot be read or the key does not match.
ReadCert(key, cert, fsys) ==
    IF IsNone(key) \/ IsNone(cert)
    THEN [cert |-> <<>>, err |-> "NotConfigured"]
    ELSE IF fsys.tlsFiles = "unreadable"
    THEN [cert |-> <<>>, err |-> "IOError"]
    ELSE IF fsys.tlsFiles = "mismatch"
    THEN [cert |-> <<>>, err |-> "KeyCertMismatch"]
    ELSE [cert |-> [certFile |-> cert[1], keyFile |-> key[1]], err |-> NilErr]

\* Line 250: TLS enabled without a certificate or without a key.
CertOrKeyMissing(enabled, cert, key) == enabled /\ (IsNone(cert) \/ IsNone(key))

\* A server-name check that is never taken.
ServerNameMissingNever(enabled, name, skipVerify) == FALSE

\* Line 255: TLS enabled, no server name and verification not skipped.
ServerNameMissing(enabled, name, skipVerify) == enabled /\ ~(IsSome(name) \/ skipVerify)

\* An enabled policy built without its certificate pair.
EnabledTlsConfigNoCert(cert, skipVerify) ==
    [ nil |-> FALSE, Certificates |-> <<>>, MinVersion |-> "VersionTLS13",
      CurvePreferences |-> <<"CurveP521", "CurveP384", "CurveP256">>,
      CipherSuites |-> << "TLS_ECDHE_RSA_WITH_AES_256_GCM_SHA384",
                          "TLS_ECDHE_RSA_WITH_AES_256_CBC_SHA",
                          "TLS_RSA_WITH_AES_256_GCM_SHA384",
                          "TLS_RSA_WITH_AES_256_CBC_SHA" >>,
      InsecureSkipVerify |-> skipVerify, ServerName |-> "" ]

\* Lines 268-279: the policy of an enabled cycle.
EnabledTlsConfig(cert, skipVerify) ==
    [ nil |-> FALSE, Certificates |-> <<cert>>, MinVersion |-> "VersionTLS13",
      CurvePreferences |-> <<"CurveP521", "CurveP384", "CurveP256">>,
      CipherSuites |-> << "TLS_ECDHE_RSA_WITH_AES_256_GCM_SHA384",
                          "TLS_ECDHE_RSA_WITH_AES_256_CBC_SHA",
                          "TLS_RSA_WITH_AES_256_GCM_SHA384",
                          "TLS_RSA_WITH_AES_256_CBC_SHA" >>,
      InsecureSkipVerify |-> skipVerify, ServerName |-> "" ]

\* A disabled cycle that returns no policy object.
DisabledTlsConfigNil(skipVerify) == NilTlsConfig

\* A disabled cycle whose policy allows TLS 1.2.
DisabledTlsConfigTls12(skipVerify) ==
    [ nil |-> FALSE, Certificates |-> <<>>, MinVersion |-> "VersionTLS12",
      CurvePreferences |-> <<"CurveP521", "CurveP384", "CurveP256">>,
      CipherSuites |-> << "TLS_ECDHE_RSA_WITH_AES_256_GCM_SHA384",
                          "TLS_ECDHE_RSA_WITH_AES_256_CBC_SHA",
                          "TLS_RSA_WITH_AES_256_GCM_SHA384",
                          "TLS_RSA_WITH_AES_256_CBC_SHA" >>,
      InsecureSkipVerify |-> skipVerify, ServerName |-> "" ]

\* Lines 281-292: the policy of a disabled cycle.
DisabledTlsConfig(skipVerify) ==
    [ nil |-> FALSE, Certificates |-> <<>>, MinVersion |-> "VersionTLS13",
      CurvePreferences |-> <<"CurveP521", "CurveP384", "CurveP256">>,
      CipherSuites |-> << "TLS_ECDHE_RSA_WITH_AES_256_GCM_SHA384",
                          "TLS_ECDHE_RSA_WITH_AES_256_CBC_SHA",
                          "TLS_RSA_WITH_AES_256_GCM_SHA384",
                          "TLS_RSA_WITH_AES_256_CBC_SHA" >>,
      InsecureSkipVerify |-> skipVerify, ServerName |-> "" ]

\* A cycle that reads the certificate files whether or not TLS is enabled.
ReadsCertAlways(enabled) == TRUE

\* Line 262: key.ReadCert(cert) is called in the enabled branch only.
ReadsCert(enabled) == enabled

\* A cycle that does not cache its policy.
TlsCacheNothing(l, config) == l

\* Line 300: l.prev = config.
TlsCache(l, config) == [l EXCEPT !.prev = config]

\* (l *TlsConfigLoader) Update(): the loader after the call, the returned
\* config and the returned error; readCert tells whether the call read the
\* certificate files.
TlsConfigLoaderUpdate(l, fsys) ==
    LET enabled    == GetOr(l.TlsEnabled, FALSE)
        skipVerify == GetOr(l.InsecureSkipVerify, FALSE)
        name       == l.ServerName
        cert       == l.Certificate
        key        == l.PrivateKey
    IN  IF CertOrKeyMissing(enabled, cert, key)
        THEN [ l |-> l, config |-> NilTlsConfig, readCert |-> FALSE,
               err |-> "TLS was enabled, but cert or key file was not set." ]
        ELSE IF ServerNameMissing(enabled, name, skipVerify)
        THEN [ l |-> l, config |-> NilTlsConfig, readCert |-> FALSE,
               err |-> "cannot make a valid tls config with enabled=true, insecureSkipVerify=false, serverName=None" ]
        ELSE LET rc == ReadCert(key, cert, fsys)
             IN  IF ReadsCert(enabled) /\ rc.err # NilErr
                 THEN [ l |-> l, config |-> NilTlsConfig, readCert |-> TRUE,
                        err |-> rc.err ]
                 ELSE LET built  == IF enabled
                                    THEN EnabledTlsConfig(rc.cert, skipVerify)
                                    ELSE DisabledTlsConfig(skipVerify)
                          sn     == Get(name, "")
                          config == IF sn.ok
                                    THEN [built EXCEPT !.ServerName = sn.val]
                                    ELSE built
                      IN  [ l |-> TlsCache(l, config), config |-> config,
                            readCert |-> ReadsCert(enabled), err |-> NilErr ]

-----------------------------------------------------------------------------
(* HttpServerConfigProtos and HttpServerConfig                             *)

HTTP == 0

HTTPS == 1

HTTP2 == 2

UNENCRYPTEDHTTP2 == 3

\* Go's bitwise | on unsigned integers.
RECURSIVE BitOr(_, _)
BitOr(a, b) ==
    IF a = 0 THEN b
    ELSE IF b = 0 THEN a
    ELSE (IF a % 2 = 1 \/ b % 2 = 1 THEN 1 ELSE 0) + 2 * BitOr(a \div 2, b \div 2)

\* (p HttpServerConfigProtos) String()
ProtoString(p) ==
    CASE p = HTTP -> "http"
      [] p = HTTPS -> "https"
      [] p = HTTP2 -> "https"
      [] p = UNENCRYPTEDHTTP2 -> "hcl"
      [] OTHER -> "unknown"

\* A nil *http.Protocols.
NilProtos == [nil |-> TRUE, bits |-> {}]

\* (p HttpServerConfigProtos) GetHttpProtos(): the first case of the switch
\* is the single value HTTP | HTTPS.
GetHttpProtos(p) ==
    CASE p = BitOr(HTTP, HTTPS) -> [nil |-> FALSE, bits |-> {"HTTP1"}]
      [] p # BitOr(HTTP, HTTPS) /\ p = HTTP2 -> [nil |-> FALSE, bits |-> {"HTTP2"}]
      [] p # BitOr(HTTP, HTTPS) /\ p # HTTP2 /\ p = UNENCRYPTEDHTTP2 ->
            [nil |-> FALSE, bits |-> {"UnencryptedHTTP2"}]
      [] OTHER -> [nil |-> FALSE, bits |-> {"HTTP1", "HTTP2"}]

Digits == <<"0", "1", "2", "3", "4", "5", "6", "7", "8", "9">>

\* strconv.FormatUint(n, 10)
RECURSIVE FormatUint(_)
FormatUint(n) ==
    IF n < 10 THEN Digits[n + 1]
    ELSE FormatUint(n \div 10) \o Digits[(n % 10) + 1]

\* The zero HttpServerConfig.
ZeroHttpServerConfig ==
    [ Protos |-> NilProtos, Hostname |-> "", BindAddr |-> "", Port |-> 0,
      RemoteAddress |-> "", TlsConf |-> NilTlsConfig, handler |-> "nil",
      readTimeout |-> 0, readHeaderTimeout |-> 0, maxHeaderBytes |-> 0,
      errorLog |-> "nil" ]

\* The zero HttpServerLoader: every option absent, Tls a nil interface.
ZeroHttpServerLoader ==
    [ Protocol |-> None, Hostname |-> None, BindAddr |-> None, BindPort |-> None,
      Tls |-> "nil", ReadTimeout |-> None, ReadHeaderTimeout |-> None,
      MaxHeaderBytes |-> None, handler |-> "nil", errorLog |-> "nil",
      prev |-> ZeroHttpServerConfig ]

\* A port switch that gives every protocol the port 443.
DefaultPortAlways(proto) == [port |-> 443, ok |-> TRUE]

\* Lines 186-195: the port, and whether the switch found no default for it.
DefaultPort(proto) ==
    CASE proto = HTTP -> [port |-> 80, ok |-> TRUE]
      [] proto = HTTPS -> [port |-> 443, ok |-> TRUE]
      [] OTHER -> [port |-> 0, ok |-> FALSE]

\* Lines 205-208: what the call l.Tls.Update() does. A nil interface value
\* has no method to call: the call panics.
CallTlsUpdate(l, t, fsys) ==
    IF l.Tls = "nil"
    THEN [panic |-> TRUE, l |-> t, config |-> NilTlsConfig, err |-> NilErr]
    ELSE LET r == TlsConfigLoaderUpdate(t, fsys)
         IN  [panic |-> FALSE, l |-> r.l, config |-> r.config, err |-> r.err]

\* A default protocol that follows the TLS sub-loader's TlsEnabled.
DefaultProtocolFromTls(t) == IF GetOr(t.TlsEnabled, FALSE) THEN HTTPS ELSE HTTP

\* Line 182: the protocol of a loader whose Protocol is absent, whatever the
\* TLS sub-loader t holds.
DefaultProtocol(t) == HTTPS

\* A failing return that hands back the cached snapshot with the error.
HttpFailedWithPrevious(l, t, err) ==
    [panic |-> FALSE, l |-> l, tls |-> t, result |-> l.prev, err |-> err]

\* Lines 193 and 206-208: a return with an error. The named result has not
\* been assigned yet and is the zero HttpServerConfig; the loader is as it
\* was and the TLS sub-loader is t.
HttpFailed(l, t, err) ==
    [panic |-> FALSE, l |-> l, tls |-> t, result |-> ZeroHttpServerConfig, err |-> err]

\* (l *HttpServerLoader) Update(): the loader and its TLS sub-loader after
\* the call, the returned config and error, and whether the call panicked.
HttpServerLoaderUpdate(l, t, fsys) ==
    LET proto    == GetOr(l.Protocol, DefaultProtocol(t))
        bindAddr == GetOr(l.BindAddr, "127.0.0.0")
        hostname == GetOr(l.Hostname, bindAddr)
        bp       == Get(l.BindPort, 0)
        dp       == DefaultPort(proto)
        port     == IF bp.ok THEN bp.val ELSE dp.port
        remoteAddr ==
            IF bp.ok
            THEN ProtoString(proto) \o "://" \o hostname \o ":" \o FormatUint(port)
            ELSE ProtoString(proto) \o "://" \o hostname
    IN  IF ~bp.ok /\ ~dp.ok
        THEN HttpFailed(l, t, "Failed to update HttpServerLoader: BindPort unset, but protocol only has default ports for HTTP and HTTPS")
        ELSE LET AfterTls(tc) ==
                 IF tc.panic
                 THEN [ panic |-> TRUE, l |-> l, tls |-> tc.l,
                        result |-> ZeroHttpServerConfig, err |-> NilErr ]
                 ELSE IF tc.err # NilErr
                 THEN HttpFailed(l, tc.l, tc.err)
                 ELSE LET result ==
                              [ Protos |-> GetHttpProtos(proto),
                                Hostname |-> hostname,
                                BindAddr |-> bindAddr,
                                Port |-> port,
                                RemoteAddress |-> remoteAddr,
                                TlsConf |-> tc.config,
                                handler |-> l.handler,
                                readTimeout |-> GetOr(l.ReadTimeout, 0),
                                readHeaderTimeout |-> GetOr(l.ReadHeaderTimeout, 0),
                                maxHeaderBytes |-> GetOr(l.MaxHeaderBytes, 0),
                                errorLog |-> l.errorLog ]
                      IN  [ panic |-> FALSE, l |-> [l EXCEPT !.prev = result],
                            tls |-> tc.l, result |-> result, err |-> NilErr ]
             IN  Only({AfterTls(tc) : tc \in {CallTlsUpdate(l, t, fsys)}})

-----------------------------------------------------------------------------
(* The generated loaders: MyDBConfigLoader, MyServiceConfigLoader and      *)
(* MyAppConfigLoader.                                                      *)

DefaultMyServiceConfigDescription == ""

DefaultMyServiceConfigNodeID == 1

DefaultMyServiceConfigPriority == 1

DefaultMyServiceConfigSecretKey == "/etc/myapp/secretkey.txt"

DefaultMyDBConfigAddress == "127.0.0.1"

DefaultMyDBConfigPort == 8080

ZeroMyDBConfig == [Address |-> "", Port |-> 0]

ZeroMyServiceConfig ==
    [ Name |-> "", Description |-> "", NodeID |-> 0, Priority |-> 0,
      SecretKey |-> None, ServerConfig |-> ZeroHttpServerConfig ]

ZeroMyAppConfig == [MyService |-> ZeroMyServiceConfig, MyDB |-> ZeroMyDBConfig]

ZeroMyDBConfigLoader == [Address |-> None, Port |-> None, previous |-> ZeroMyDBConfig]

ZeroMyServiceConfigLoader ==
    [ Name |-> None, Description |-> None, NodeID |-> None, Priority |-> None,
      SecretKey |-> None, previous |-> ZeroMyServiceConfig ]

\* The flag variables before any flag is parsed.
ZeroFlags == [myServiceNode |-> None, myDBAddress |-> None, myDBPort |-> None]

\* A merge that forgets the port flag.
MyDBApplyFlagsNoPort(l, fl) == [l EXCEPT !.Address = Or(fl.myDBAddress, l.Address)]

\* Lines 510-511: the flags are merged into the loader's own fields.
MyDBApplyFlags(l, fl) ==
    [l EXCEPT !.Address = Or(fl.myDBAddress, l.Address),
              !.Port = Or(fl.myDBPort, l.Port)]

\* A snapshot in which an absent field keeps the previous cycle's value.
MyDBNewConfigKeepsPrevious(l) ==
    [l.previous EXCEPT
        !.Address = GetOr(l.Address, IF l.previous.Address # "" THEN l.previous.Address
                                     ELSE DefaultMyDBConfigAddress),
        !.Port = GetOr(l.Port, IF l.previous.Port # 0 THEN l.previous.Port
                               ELSE DefaultMyDBConfigPort)]

\* Lines 513-516: the snapshot starts as the previous one and both of its
\* fields are assigned.
MyDBNewConfig(l) ==
    [l.previous EXCEPT
        !.Address = GetOr(l.Address, DefaultMyDBConfigAddress),
        !.Port = GetOr(l.Port, DefaultMyDBConfigPort)]

\* (l *MyDBConfigLoader) Update()
MyDBConfigLoaderUpdate(l, fl) ==
    LET l1 == MyDBApplyFlags(l, fl)
        newConfig == MyDBNewConfig(l1)
    IN  [l |-> [l1 EXCEPT !.previous = newConfig], c |-> newConfig, err |-> NilErr]

\* What a secret file holds.
SecretContents(path) == "contents of " \o path

\* file.SecretFile.ReadFile(): the contents as a Secret and ok, or ok = false
\* when the file cannot be read.
SecretFileReadFile(f, fsys) ==
    IF IsSome(f) /\ f[1] \in fsys.secrets
    THEN [val |-> Some(SecretContents(f[1])), ok |-> TRUE]
    ELSE [val |-> None, ok |-> FALSE]

\* A Name check that falls back to the Name of the previous snapshot.
NameMissingUnlessPrevious(l) == ~Get(l.Name, "").ok /\ l.previous.Name = ""

\* Lines 483-486: Name is required.
NameMissing(l) == ~Get(l.Name, "").ok

\* Lines 482-494: the snapshot built from the previous one.
MyServiceNewConfig(l, secretKey, serverConfig) ==
    [l.previous EXCEPT
        !.Name = Get(l.Name, "").val,
        !.Description = GetOr(l.Description, DefaultMyServiceConfigDescription),
        !.NodeID = GetOr(l.NodeID, DefaultMyServiceConfigNodeID),
        !.Priority = GetOr(l.Priority, DefaultMyServiceConfigPriority),
        !.SecretKey = secretKey,
        !.ServerConfig = serverConfig]

\* (l *MyServiceConfigLoader) Update(). h and t are l.ServerConfig and the
\* TLS loader it points to. The error that l.ServerConfig.Update() returns is
\* assigned to err at line 480 and never read: the final return is
\* "newConfig, nil".
MyServiceConfigLoaderUpdate(l, h, t, fl, fsys) ==
    LET l1 == [l EXCEPT !.NodeID = Or(fl.myServiceNode, l.NodeID)]
        l2 == IF IsNone(l1.SecretKey)
              THEN [l1 EXCEPT !.SecretKey = Some(DefaultMyServiceConfigSecretKey)]
              ELSE l1
        rf == SecretFileReadFile(l2.SecretKey, fsys)
    IN  IF ~rf.ok
        THEN [ panic |-> FALSE, l |-> l2, http |-> h, tls |-> t,
               c |-> ZeroMyServiceConfig,
               err |-> "MyServiceConfig missing required field: SecretKey" ]
        ELSE LET AfterServerConfig(hr) ==
                 IF hr.panic
                 THEN [ panic |-> TRUE, l |-> l2, http |-> hr.l, tls |-> hr.tls,
                        c |-> ZeroMyServiceConfig, err |-> NilErr ]
                 ELSE IF NameMissing(l2)
                 THEN [ panic |-> FALSE, l |-> l2, http |-> hr.l, tls |-> hr.tls,
                        c |-> ZeroMyServiceConfig,
                        err |-> "MyServiceConfig missing required field: Name" ]
                 ELSE LET newConfig == MyServiceNewConfig(l2, rf.val, hr.result)
                      IN  [ panic |-> FALSE, l |-> [l2 EXCEPT !.previous = newConfig],
                            http |-> hr.l, tls |-> hr.tls,
                            c |-> newConfig, err |-> NilErr ]
             IN  Only({AfterServerConfig(hr) : hr \in {HttpServerLoaderUpdate(h, t, fsys)}})

\* (l *MyAppConfigLoader) Update()
MyAppConfigLoaderUpdate(a, s, d, h, t, fl, fsys) ==
    LET AfterMyService(sr) ==
        IF sr.panic \/ sr.err # NilErr
        THEN [ panic |-> sr.panic, a |-> a, svc |-> sr.l, db |-> d,
               http |-> sr.http, tls |-> sr.tls,
               config |-> ZeroMyAppConfig, err |-> sr.err ]
        ELSE LET dr == MyDBConfigLoaderUpdate(d, fl)
                 config == [MyService |-> sr.c, MyDB |-> dr.c]
             IN  [ panic |-> FALSE, a |-> [a EXCEPT !.previous = config],
                   svc |-> sr.l, db |-> dr.l, http |-> sr.http, tls |-> sr.tls,
                   config |-> config, err |-> dr.err ]
    IN  Only({AfterMyService(sr) : sr \in {MyServiceConfigLoaderUpdate(s, h, t, fl, fsys)}})

-----------------------------------------------------------------------------
(* The *tls.Config objects by address. Seen by value a policy is a record;  *)
(* here every "&tls.Config{...}" of TlsConfigLoader.Update is an object at  *)
(* an address, and a pointer is the address, 0 for nil.                     *)

\* No object allocated; prev is the address in the loader's prev field and
\* ret the address the last Update returned.
EmptyHeap == [objs |-> <<>>, prev |-> 0, ret |-> 0]

\* An Update that writes its policy into the object the loader already holds.
ReusePolicyAddress(objs, prev) == IF prev # 0 THEN prev ELSE Len(objs) + 1

\* Lines 268 and 281: a composite literal under & is a new object, at an
\* address no earlier object has.
NewPolicyAddress(objs, prev) == Len(objs) + 1

\* The object at address a becomes obj.
StorePolicy(objs, a, obj) ==
    IF a \in DOMAIN objs THEN [objs EXCEPT ![a] = obj] ELSE Append(objs, obj)

\* (l *TlsConfigLoader) Update() with the objects in view: the policy that
\* TlsConfigLoaderUpdate computes is built in a new object (lines 268-298)
\* and l.prev is pointed at it (line 300); on an error nil is returned and
\* nothing is allocated.
TlsConfigLoaderUpdateAt(l, fsys, h) ==
    LET At(r) ==
        IF r.err # NilErr
        THEN [l |-> r.l, config |-> r.config, err |-> r.err, heap |-> [h EXCEPT !.ret = 0]]
        ELSE LET a == NewPolicyAddress(h.objs, h.prev)
             IN  [ l |-> r.l, config |-> r.config, err |-> r.err,
                   heap |-> [objs |-> StorePolicy(h.objs, a, r.config), prev |-> a, ret |-> a] ]
    IN  Only({At(r) : r \in {TlsConfigLoaderUpdate(l, fsys)}})

-----------------------------------------------------------------------------
(* Flag registration: SetupMyAppConfigFlags, NewLoader and flagSetupper.    *)

\* The flags in the order onceBody registers them.
FlagNames == <<"myServiceNode", "myDBAddress", "myDBPort">>

\* The goroutines that call SetupMyAppConfigFlags or NewLoader.
Callers == 1..NumCallers

\* Before any call: flagSetupper is the zero sync.Once (not done, mutex
\* free), no flag.Var call has been made for any name, and no goroutine is
\* inside a call.
NoRegistration ==
    [ done  |-> FALSE,
      m     |-> 0,
      count |-> [i \in DOMAIN FlagNames |-> 0],
      pc    |-> [p \in Callers |-> "idle"],
      fn    |-> [p \in Callers |-> "none"] ]

\* A once that runs the body on every call.
OnceAlwaysRuns(done) == TRUE

\* sync.Once: "o.done.Load() == 0", the test of Do and again of doSlow under
\* the mutex.
OnceMustRun(done) == ~done

\* The position after flag.Var number i of onceBody.
AfterFlagVar(i) == IF i < Len(FlagNames) THEN i + 1 ELSE 0

-----------------------------------------------------------------------------
(* HttpServerConfig.NewHttpServer                                           *)

\* The strings that net.ParseIP accepts, among those that are used here, all
\* in the form that IP.String gives back.
ValidIPs == {"127.0.0.0", "127.0.0.1", "0.0.0.0"}

\* net.ParseIP(s).String(): the nil IP prints as "<nil>".
ParseIPString(s) == IF s \in ValidIPs THEN s ELSE "<nil>"

\* No server built yet.
NilServer ==
    [ nil |-> TRUE, from |-> ZeroHttpServerConfig, Addr |-> "", Handler |-> "nil",
      TLSConfig |-> NilTlsConfig, ReadTimeout |-> 0, ReadHeaderTimeout |-> 0,
      MaxHeaderBytes |-> 0, ErrorLog |-> "nil", Protocols |-> NilProtos ]

\* (c HttpServerConfig) NewHttpServer(): the fields of the http.Server
\* literal of line 137; MaxHeaderBytes is not among them and keeps its zero
\* value. from is the snapshot the server was built from.
NewHttpServer(c) ==
    LET port == FormatUint(c.Port)
        addr == IF c.BindAddr # ""
                THEN ParseIPString(c.BindAddr) \o ":" \o port
                ELSE ":" \o port
    IN  [ nil |-> FALSE, from |-> c, Addr |-> addr, Handler |-> c.handler,
          TLSConfig |-> c.TlsConf, ReadTimeout |-> c.readTimeout,
          ReadHeaderTimeout |-> c.readHeaderTimeout, MaxHeaderBytes |-> 0,
          ErrorLog |-> c.errorLog, Protocols |-> c.Protos ]

-----------------------------------------------------------------------------
(* Package file: File, SecretFile and the Secret read from a SecretFile.    *)

\* What printing, logging or formatting a Secret gives.
RedactionLiteral == "[REDACTED]"

\* A caller that holds no file handle and no secret, and has printed nothing.
NoFiles ==
    [ last |-> "none", normf |-> None, secretf |-> None, secret |-> None,
      printed |-> "" ]

\* file.SomeFile(path)
SomeFile(path) == Some(path)

\* An upgrade that leaves the source handle as it was.
MakeSecretKeepsSource(f) == [source |-> f, secretf |-> f]

\* file.MakeSecret(&f): the SecretFile takes the path of f and f is cleared.
MakeSecret(f) == [source |-> None, secretf |-> f]

\* A rendering that shows what a present Secret holds.
SecretStringReveals(s) == IF IsSome(s) THEN s[1] ELSE RedactionLiteral

\* The String method of a Secret, which print, log and format call.
SecretString(s) == RedactionLiteral

-----------------------------------------------------------------------------
(* The values a caller, the command line and the file system may supply.   *)

SecretPaths == {DefaultMyServiceConfigSecretKey, "/run/secrets/key"}

TlsFileStates == {"valid", "unreadable", "mismatch"}

FileSystems == [secrets : SUBSET SecretPaths, tlsFiles : TlsFileStates]

FlagValues ==
    [ myServiceNode |-> {None, Some(7)},
      myDBAddress   |-> {None, Some("10.0.0.9")},
      myDBPort      |-> {None, Some(9090)} ]

TlsFieldValues ==
    [ TlsEnabled         |-> OptBool,
      ServerName         |-> OptNames,
      PrivateKey         |-> {None, Some(DefaultMyServiceConfigTlsPrivateKey)},
      Certificate        |-> {None, Some(DefaultMyServiceConfigTlsCert)},
      InsecureSkipVerify |-> OptBool ]

HttpFieldValues ==
    [ Protocol          |-> {None} \cup {Some(p) : p \in HTTP..(UNENCRYPTEDHTTP2 + 1)},
      Hostname          |-> {None, Some("example.org")},
      BindAddr          |-> {None, Some(""), Some("0.0.0.0")},
      BindPort          |-> {None, Some(80), Some(443), Some(8443)},
      Tls               |-> {"nil", "tls"},
      ReadTimeout       |-> {None, Some(30)},
      ReadHeaderTimeout |-> {None, Some(10)},
      MaxHeaderBytes    |-> {None, Some(4096)},
      handler           |-> {"nil", "mux"},
      errorLog          |-> {"nil", "logger"} ]

ServiceFieldValues ==
    [ Name        |-> OptNames,
      Description |-> {None, Some("a service")},
      NodeID      |-> {None, Some(2)},
      Priority    |-> {None, Some(5)},
      SecretKey   |-> {None} \cup {Some(p) : p \in SecretPaths} ]

DBFieldValues ==
    [ Address |-> {None, Some("db.internal")},
      Port    |-> {None, Some(8080), Some(5432)} ]

\* The part of these values that the specification of the whole loader tree
\* lets the caller choose from: the fields that decide which way an Update
\* of the tree goes.
TreeFileSystems == [secrets : SUBSET {DefaultMyServiceConfigSecretKey}, tlsFiles : {"valid"}]

TreeTlsFieldValues == [TlsEnabled |-> {None, Some(TRUE)}]

TreeHttpFieldValues ==
    [ Protocol |-> {None, Some(HTTP2)},
      Tls      |-> {"nil", "tls"} ]

TreeServiceFieldValues ==
    [ Name        |-> OptNames,
      Description |-> {None, Some("a service")},
      NodeID      |-> {None, Some(2)},
      Priority    |-> {None, Some(5)} ]

-----------------------------------------------------------------------------
(* Actions. A panic that nothing recovers ends the process.                *)

Running == ~ret.panic

\* ret records the last Update call: which loader, whether it panicked, the
\* error and the snapshot it returned; tick changes with every call. For a
\* MyDBConfigLoader.Update, which overwrites the fields it reads, read keeps
\* the flags, the fields and the cached snapshot as they were when the call
\* began; for a TlsConfigLoader.Update it tells whether the call read the
\* certificate files.
NoCall ==
    [ op |-> "none", tick |-> FALSE, panic |-> FALSE, err |-> NilErr,
      val |-> None, read |-> None ]

Returned(op, panic, err, val, read) ==
    [ op |-> op, tick |-> ~ret.tick, panic |-> panic, err |-> err,
      val |-> val, read |-> read ]

\* The command line sets or clears a flag variable.
SetFlag(values) ==
    /\ Running /\ sets < MaxSets
    /\ \E f \in DOMAIN values : \E v \in values[f] :
          /\ v # flags[f]
          /\ flags' = [flags EXCEPT ![f] = v]
    /\ sets' = sets + 1
    /\ UNCHANGED <<fs, tls, http, svc, db, app, ret, others>>

\* A file appears, disappears or changes.
SetFiles(systems) ==
    /\ Running /\ sets < MaxSets
    /\ \E n \in systems :
          /\ n # fs
          /\ n.secrets = fs.secrets \/ n.tlsFiles = fs.tlsFiles
          /\ Cardinality((n.secrets \ fs.secrets) \cup (fs.secrets \ n.secrets)) <= 1
          /\ fs' = n
    /\ sets' = sets + 1
    /\ UNCHANGED <<flags, tls, http, svc, db, app, ret, others>>

\* The caller assigns to an exported field of the TlsConfigLoader.
SetTlsField(values) ==
    /\ Running /\ sets < MaxSets
    /\ \E f \in DOMAIN values : \E v \in values[f] :
          /\ v # tls[f]
          /\ tls' = [tls EXCEPT ![f] = v]
    /\ sets' = sets + 1
    /\ UNCHANGED <<flags, fs, http, svc, db, app, ret, others>>

\* The caller assigns to a field of the HttpServerLoader (handler and
\* errorLog through With).
SetHttpField(values) ==
    /\ Running /\ sets < MaxSets
    /\ \E f \in DOMAIN values : \E v \in values[f] :
          /\ v # http[f]
          /\ http' = [http EXCEPT ![f] = v]
    /\ sets' = sets + 1
    /\ UNCHANGED <<flags, fs, tls, svc, db, app, ret, others>>

\* The caller assigns to an exported field of the MyServiceConfigLoader.
SetServiceField(values) ==
    /\ Running /\ sets < MaxSets
    /\ \E f \in DOMAIN values : \E v \in values[f] :
          /\ v # svc[f]
          /\ svc' = [svc EXCEPT ![f] = v]
    /\ sets' = sets + 1
    /\ UNCHANGED <<flags, fs, tls, http, db, app, ret, others>>

\* The caller assigns to an exported field of the MyDBConfigLoader.
SetDBField(values) ==
    /\ Running /\ sets < MaxSets
    /\ \E f \in DOMAIN values : \E v \in values[f] :
          /\ v # db[f]
          /\ db' = [db EXCEPT ![f] = v]
    /\ sets' = sets + 1
    /\ UNCHANGED <<flags, fs, tls, http, svc, app, ret, others>>

\* A call of (*TlsConfigLoader).Update on the TLS loader.
TlsUpdate ==
    /\ Running /\ http.Tls = "tls"
    /\ \E r \in {TlsConfigLoaderUpdate(tls, fs)} :
           /\ tls' = r.l
           /\ ret' = Returned("Tls", FALSE, r.err, r.config, Some([readCert |-> r.readCert]))
    /\ UNCHANGED <<flags, fs, http, svc, db, app, sets, others>>

\* A call of (*HttpServerLoader).Update.
HttpUpdate ==
    /\ Running
    /\ \E r \in {HttpServerLoaderUpdate(http, tls, fs)} :
           /\ http' = r.l
           /\ tls' = r.tls
           /\ ret' = Returned("Http", r.panic, r.err, r.result, None)
    /\ UNCHANGED <<flags, fs, svc, db, app, sets, others>>

\* A call of (*MyDBConfigLoader).Update.
MyDBUpdate ==
    /\ Running
    /\ \E r \in {MyDBConfigLoaderUpdate(db, flags)} :
           /\ db' = r.l
           /\ ret' = Returned("MyDB", FALSE, r.err, r.c,
                             Some([flags |-> flags, Address |-> db.Address, Port |-> db.Port,
                                   previous |-> db.previous]))
    /\ UNCHANGED <<flags, fs, tls, http, svc, app, sets, others>>

\* A call of (*MyServiceConfigLoader).Update.
MyServiceUpdate ==
    /\ Running
    /\ \E r \in {MyServiceConfigLoaderUpdate(svc, http, tls, flags, fs)} :
           /\ svc' = r.l
           /\ http' = r.http
           /\ tls' = r.tls
           /\ ret' = Returned("MyService", r.panic, r.err, r.c, None)
    /\ UNCHANGED <<flags, fs, db, app, sets, others>>

\* A call of (*MyAppConfigLoader).Update.
MyAppUpdate ==
    /\ Running
    /\ \E r \in {MyAppConfigLoaderUpdate(app, svc, db, http, tls, flags, fs)} :
           /\ app' = r.a
           /\ svc' = r.svc
           /\ db' = r.db
           /\ http' = r.http
           /\ tls' = r.tls
           /\ ret' = Returned("MyApp", r.panic, r.err, r.config, None)
    /\ UNCHANGED <<flags, fs, sets, others>>

-----------------------------------------------------------------------------
(* Specifications.                                                         *)

\* The loader tree: a zero MyAppConfigLoader as NewLoader makes it, or one
\* whose ServerConfig.Tls the caller has pointed at a TlsConfigLoader, in
\* front of any file system.
Init ==
    /\ flags = ZeroFlags
    /\ fs \in TreeFileSystems
    /\ tls = ZeroTlsConfigLoader
    /\ http \in {ZeroHttpServerLoader, [ZeroHttpServerLoader EXCEPT !.Tls = "tls"]}
    /\ svc = ZeroMyServiceConfigLoader
    /\ db = ZeroMyDBConfigLoader
    /\ app = [previous |-> ZeroMyAppConfig]
    /\ ret = NoCall
    /\ sets = 0
    /\ heap = EmptyHeap
    /\ reg = NoRegistration
    /\ server = NilServer
    /\ lib = NoFiles

Next ==
    \/ SetFlag(FlagValues)
    \/ SetFiles(TreeFileSystems)
    \/ SetTlsField(TreeTlsFieldValues)
    \/ SetHttpField(TreeHttpFieldValues)
    \/ SetServiceField(TreeServiceFieldValues)
    \/ SetDBField(DBFieldValues)
    \/ TlsUpdate
    \/ HttpUpdate
    \/ MyDBUpdate
    \/ MyServiceUpdate
    \/ MyAppUpdate

Spec == Init /\ [][Next]_vars

\* A TlsConfigLoader on its own, built with any field values.
InitTls ==
    /\ flags = ZeroFlags
    /\ fs \in [secrets : {{}}, tlsFiles : TlsFileStates]
    /\ tls \in [ TlsEnabled : TlsFieldValues.TlsEnabled,
                 ServerName : TlsFieldValues.ServerName,
                 PrivateKey : TlsFieldValues.PrivateKey,
                 Certificate : TlsFieldValues.Certificate,
                 InsecureSkipVerify : TlsFieldValues.InsecureSkipVerify,
                 prev : {NilTlsConfig} ]
    /\ http = [ZeroHttpServerLoader EXCEPT !.Tls = "tls"]
    /\ svc = ZeroMyServiceConfigLoader
    /\ db = ZeroMyDBConfigLoader
    /\ app = [previous |-> ZeroMyAppConfig]
    /\ ret = NoCall
    /\ sets = 0
    /\ heap = EmptyHeap
    /\ reg = NoRegistration
    /\ server = NilServer
    /\ lib = NoFiles

NextTls ==
    \/ SetTlsField(TlsFieldValues)
    \/ TlsUpdate
    \/ HttpUpdate

SpecTls == InitTls /\ [][NextTls]_vars

\* A MyDBConfigLoader on its own, built with any field values, under any
\* command line.
InitDB ==
    /\ flags \in [ myServiceNode : {None},
                   myDBAddress : FlagValues.myDBAddress,
                   myDBPort : FlagValues.myDBPort ]
    /\ fs = [secrets |-> {}, tlsFiles |-> "valid"]
    /\ tls = ZeroTlsConfigLoader
    /\ http = ZeroHttpServerLoader
    /\ svc = ZeroMyServiceConfigLoader
    /\ db \in [ Address : DBFieldValues.Address, Port : DBFieldValues.Port,
                previous : {ZeroMyDBConfig} ]
    /\ app = [previous |-> ZeroMyAppConfig]
    /\ ret = NoCall
    /\ sets = 0
    /\ heap = EmptyHeap
    /\ reg = NoRegistration
    /\ server = NilServer
    /\ lib = NoFiles

NextDB ==
    \/ SetFlag(FlagValues)
    \/ SetDBField(DBFieldValues)
    \/ MyDBUpdate

SpecDB == InitDB /\ [][NextDB]_vars

-----------------------------------------------------------------------------
(* TlsConfigLoader.Update with its policy objects in view.                  *)

\* A call of (*TlsConfigLoader).Update, the objects it allocates included.
TlsUpdateAt ==
    /\ Running /\ http.Tls = "tls"
    /\ Len(heap.objs) < MaxPolicies
    /\ \E r \in {TlsConfigLoaderUpdateAt(tls, fs, heap)} :
           /\ tls' = r.l
           /\ heap' = r.heap
           /\ ret' = Returned("Tls", FALSE, r.err, r.config, None)
    /\ UNCHANGED <<flags, fs, http, svc, db, app, sets, reg, server, lib>>

\* A TlsConfigLoader built with any field values, in front of readable
\* certificate files.
InitPolicy ==
    /\ flags = ZeroFlags
    /\ fs = [secrets |-> {}, tlsFiles |-> "valid"]
    /\ tls \in [ TlsEnabled : TlsFieldValues.TlsEnabled,
                 ServerName : TlsFieldValues.ServerName,
                 PrivateKey : TlsFieldValues.PrivateKey,
                 Certificate : TlsFieldValues.Certificate,
                 InsecureSkipVerify : TlsFieldValues.InsecureSkipVerify,
                 prev : {NilTlsConfig} ]
    /\ http = [ZeroHttpServerLoader EXCEPT !.Tls = "tls"]
    /\ svc = ZeroMyServiceConfigLoader
    /\ db = ZeroMyDBConfigLoader
    /\ app = [previous |-> ZeroMyAppConfig]
    /\ ret = NoCall
    /\ sets = 0
    /\ heap = EmptyHeap
    /\ reg = NoRegistration
    /\ server = NilServer
    /\ lib = NoFiles

NextPolicy ==
    \/ SetTlsField(TlsFieldValues)
    \/ TlsUpdateAt

SpecPolicy == InitPolicy /\ [][NextPolicy]_vars

-----------------------------------------------------------------------------
(* Goroutines calling SetupMyAppConfigFlags and NewLoader.                  *)

\* The position of a goroutine at flag.Var number i of onceBody.
VarPc(i) == "var" \o Digits[i + 1]

\* A goroutine calls SetupMyAppConfigFlags, directly or as the first
\* statement of NewLoader (line 417).
BeginCall(p) ==
    /\ Running /\ reg.pc[p] \in {"idle", "returned"}
    /\ \E f \in {"SetupMyAppConfigFlags", "NewLoader"} :
           reg' = [reg EXCEPT !.pc[p] = "load", !.fn[p] = f]
    /\ UNCHANGED <<flags, fs, tls, http, svc, db, app, ret, sets, heap, server, lib>>

\* flagSetupper.Do(onceBody), line 412: the load of done before the mutex.
OnceDo(p) ==
    /\ Running /\ reg.pc[p] = "load"
    /\ reg' = [reg EXCEPT !.pc[p] = IF OnceMustRun(reg.done) THEN "lock" ELSE "setup_done"]
    /\ UNCHANGED <<flags, fs, tls, http, svc, db, app, ret, sets, heap, server, lib>>

\* doSlow: o.m.Lock() waits until the mutex is free.
OnceLock(p) ==
    /\ Running /\ reg.pc[p] = "lock" /\ reg.m = 0
    /\ reg' = [reg EXCEPT !.m = p, !.pc[p] = "check"]
    /\ UNCHANGED <<flags, fs, tls, http, svc, db, app, ret, sets, heap, server, lib>>

\* doSlow: the load of done under the mutex.
OnceCheck(p) ==
    /\ Running /\ reg.pc[p] = "check"
    /\ reg' = [reg EXCEPT !.pc[p] = IF OnceMustRun(reg.done) THEN VarPc(1) ELSE "unlock"]
    /\ UNCHANGED <<flags, fs, tls, http, svc, db, app, ret, sets, heap, server, lib>>

\* One flag.Var call of onceBody (lines 408-410). flag.Var panics when the
\* name is already defined in the flag set.
FlagVar(p) ==
    /\ Running
    /\ \E i \in DOMAIN FlagNames :
          /\ reg.pc[p] = VarPc(i)
          /\ reg' = [reg EXCEPT !.count[i] = @ + 1,
                                !.pc[p] = IF AfterFlagVar(i) = 0 THEN "store"
                                          ELSE VarPc(AfterFlagVar(i))]
          /\ ret' = IF reg.count[i] > 0
                    THEN Returned("flag.Var", TRUE, "flag redefined: " \o FlagNames[i], None, None)
                    ELSE ret
    /\ UNCHANGED <<flags, fs, tls, http, svc, db, app, sets, heap, server, lib>>

\* doSlow: the deferred o.done.Store(1).
OnceStore(p) ==
    /\ Running /\ reg.pc[p] = "store"
    /\ reg' = [reg EXCEPT !.done = TRUE, !.pc[p] = "unlock"]
    /\ UNCHANGED <<flags, fs, tls, http, svc, db, app, ret, sets, heap, server, lib>>

\* doSlow: the deferred o.m.Unlock(); Do and SetupMyAppConfigFlags return.
OnceUnlock(p) ==
    /\ Running /\ reg.pc[p] = "unlock"
    /\ reg' = [reg EXCEPT !.m = 0, !.pc[p] = "setup_done"]
    /\ UNCHANGED <<flags, fs, tls, http, svc, db, app, ret, sets, heap, server, lib>>

\* SetupMyAppConfigFlags returns to a caller that called it directly.
SetupReturn(p) ==
    /\ Running /\ reg.pc[p] = "setup_done" /\ reg.fn[p] = "SetupMyAppConfigFlags"
    /\ reg' = [reg EXCEPT !.pc[p] = "returned"]
    /\ UNCHANGED <<flags, fs, tls, http, svc, db, app, ret, sets, heap, server, lib>>

\* The rest of NewLoader (lines 419-421): a zero MyAppConfigLoader of its
\* own is updated and returned with the error.
NewLoaderUpdate(p) ==
    /\ Running /\ reg.pc[p] = "setup_done" /\ reg.fn[p] = "NewLoader"
    /\ \E r \in {MyAppConfigLoaderUpdate([previous |-> ZeroMyAppConfig],
                                         ZeroMyServiceConfigLoader, ZeroMyDBConfigLoader,
                                         ZeroHttpServerLoader, ZeroTlsConfigLoader,
                                         flags, fs)} :
           /\ ret' = Returned("NewLoader", r.panic, r.err, r.config, None)
           /\ reg' = [reg EXCEPT !.pc[p] = IF r.panic THEN "panicked" ELSE "returned"]
    /\ UNCHANGED <<flags, fs, tls, http, svc, db, app, sets, heap, server, lib>>

\* A process that has called nothing yet, in front of any file system.
InitFlags ==
    /\ flags = ZeroFlags
    /\ fs \in TreeFileSystems
    /\ tls = ZeroTlsConfigLoader
    /\ http = ZeroHttpServerLoader
    /\ svc = ZeroMyServiceConfigLoader
    /\ db = ZeroMyDBConfigLoader
    /\ app = [previous |-> ZeroMyAppConfig]
    /\ ret = NoCall
    /\ sets = 0
    /\ heap = EmptyHeap
    /\ reg = NoRegistration
    /\ server = NilServer
    /\ lib = NoFiles

NextFlags ==
    \E p \in Callers :
        \/ BeginCall(p)
        \/ OnceDo(p)
        \/ OnceLock(p)
        \/ OnceCheck(p)
        \/ FlagVar(p)
        \/ OnceStore(p)
        \/ OnceUnlock(p)
        \/ SetupReturn(p)
        \/ NewLoaderUpdate(p)

SpecFlags == InitFlags /\ [][NextFlags]_vars

-----------------------------------------------------------------------------
(* An HttpServerLoader on its own and the servers built from its snapshots. *)

\* The TLS loaders an HttpServerLoader is given here: the zero loader, one
\* with TLS switched off and one with TLS switched on and complete.
HttpTlsLoaders ==
    { ZeroTlsConfigLoader,
      [ZeroTlsConfigLoader EXCEPT !.TlsEnabled = Some(FALSE)],
      [ZeroTlsConfigLoader EXCEPT !.TlsEnabled = Some(TRUE),
                                  !.ServerName = Some(NamePool[1]),
                                  !.PrivateKey = Some(DefaultMyServiceConfigTlsPrivateKey),
                                  !.Certificate = Some(DefaultMyServiceConfigTlsCert)] }

\* A call of NewHttpServer on the snapshot the loader holds (Previous()).
NewHttpServerCall ==
    /\ Running
    /\ server' = NewHttpServer(http.prev)
    /\ UNCHANGED <<flags, fs, tls, http, svc, db, app, ret, sets, heap, reg, lib>>

\* An HttpServerLoader built with any field values.
InitHttp ==
    /\ flags = ZeroFlags
    /\ fs = [secrets |-> {}, tlsFiles |-> "valid"]
    /\ tls \in HttpTlsLoaders
    /\ http \in [ Protocol : HttpFieldValues.Protocol,
                  Hostname : HttpFieldValues.Hostname,
                  BindAddr : HttpFieldValues.BindAddr,
                  BindPort : HttpFieldValues.BindPort,
                  Tls : HttpFieldValues.Tls,
                  ReadTimeout : HttpFieldValues.ReadTimeout,
                  ReadHeaderTimeout : HttpFieldValues.ReadHeaderTimeout,
                  MaxHeaderBytes : HttpFieldValues.MaxHeaderBytes,
                  handler : HttpFieldValues.handler,
                  errorLog : HttpFieldValues.errorLog,
                  prev : {ZeroHttpServerConfig} ]
    /\ svc = ZeroMyServiceConfigLoader
    /\ db = ZeroMyDBConfigLoader
    /\ app = [previous |-> ZeroMyAppConfig]
    /\ ret = NoCall
    /\ sets = 0
    /\ heap = EmptyHeap
    /\ reg = NoRegistration
    /\ server = NilServer
    /\ lib = NoFiles

NextHttp ==
    \/ HttpUpdate
    \/ NewHttpServerCall

SpecHttp == InitHttp /\ [][NextHttp]_vars

-----------------------------------------------------------------------------
(* A caller of package file, as in the README's secret-file example.        *)

\* normf = file.SomeFile(path)
LibSomeFile ==
    /\ \E p \in SecretPaths :
           lib' = [lib EXCEPT !.last = "SomeFile", !.normf = SomeFile(p)]
    /\ UNCHANGED <<flags, fs, tls, http, svc, db, app, ret, sets, heap, reg, server>>

\* secretf := file.MakeSecret(&normf)
LibMakeSecret ==
    /\ \E r \in {MakeSecret(lib.normf)} :
           lib' = [lib EXCEPT !.last = "MakeSecret", !.normf = r.source,
                              !.secretf = r.secretf]
    /\ UNCHANGED <<flags, fs, tls, http, svc, db, app, ret, sets, heap, reg, server>>

\* secret, ok := secretf.ReadFile()
LibReadFile ==
    /\ \E r \in {SecretFileReadFile(lib.secretf, fs)} :
           lib' = [lib EXCEPT !.last = "ReadFile", !.secret = r.val]
    /\ UNCHANGED <<flags, fs, tls, http, svc, db, app, ret, sets, heap, reg, server>>

\* fmt.Println(secret), slog.Info(..., secret), log.Printf("%s", secret)
LibPrint ==
    /\ lib' = [lib EXCEPT !.last = "Print", !.printed = SecretString(lib.secret)]
    /\ UNCHANGED <<flags, fs, tls, http, svc, db, app, ret, sets, heap, reg, server>>

\* A caller that holds nothing, in front of any set of secret files.
InitLib ==
    /\ flags = ZeroFlags
    /\ fs \in [secrets : SUBSET SecretPaths, tlsFiles : {"valid"}]
    /\ tls = ZeroTlsConfigLoader
    /\ http = ZeroHttpServerLoader
    /\ svc = ZeroMyServiceConfigLoader
    /\ db = ZeroMyDBConfigLoader
    /\ app = [previous |-> ZeroMyAppConfig]
    /\ ret = NoCall
    /\ sets = 0
    /\ heap = EmptyHeap
    /\ reg = NoRegistration
    /\ server = NilServer
    /\ lib = NoFiles

NextLib ==
    \/ LibSomeFile
    \/ LibMakeSecret
    \/ LibReadFile
    \/ LibPrint

SpecLib == InitLib /\ [][NextLib]_vars

-----------------------------------------------------------------------------
(* Properties of TlsConfigLoader.Update, under SpecTls.                    *)

\* The step is a call of the Update of loader op.
Called(op) == ret'.tick # ret.tick /\ ret'.op = op

TlsIsEnabled == tls.TlsEnabled = Some(TRUE)

TlsFilesConfigured == IsSome(tls.Certificate) /\ IsSome(tls.PrivateKey)

\* C7: TlsConfigLoader.Update with TLS enabled, InsecureSkipVerify false or
\* absent and no ServerName returns an error and a nil policy; with
\* InsecureSkipVerify true, no ServerName, and certificate and key configured
\* and readable, it returns a policy and no error.
C7_ServerNameOrSkipVerify ==
    [][ Called("Tls") =>
          /\ (TlsIsEnabled /\ tls.InsecureSkipVerify \in {None, Some(FALSE)}
                /\ tls.ServerName = None)
                => (ret'.err # NilErr /\ ret'.val.nil)
          /\ (TlsIsEnabled /\ tls.InsecureSkipVerify = Some(TRUE)
                /\ tls.ServerName = None /\ TlsFilesConfigured
                /\ fs.tlsFiles = "valid")
                => (ret'.err = NilErr /\ ~ret'.val.nil)
      ]_vars

\* An enabled cycle without a server name that succeeded because
\* verification is skipped.
C7_Witness ==
    /\ ret.op = "Tls" /\ ret.err = NilErr /\ ~ret.val.nil
    /\ TlsIsEnabled /\ tls.InsecureSkipVerify = Some(TRUE) /\ tls.ServerName = None
    /\ ret.val.InsecureSkipVerify /\ ret.val.ServerName = ""

\* C8: with TLS enabled and the certificate or the private key absent,
\* TlsConfigLoader.Update returns an error whatever ServerName and
\* InsecureSkipVerify are; and the policy an enabled cycle returns carries
\* exactly one certificate pair, that of the configured certificate and key.
C8_EnabledNeedsCertAndKey ==
    [][ Called("Tls") =>
          /\ (TlsIsEnabled /\ ~TlsFilesConfigured) => (ret'.err # NilErr /\ ret'.val.nil)
          /\ (TlsIsEnabled /\ ret'.err = NilErr)
                => /\ TlsFilesConfigured
                   /\ Len(ret'.val.Certificates) = 1
                   /\ ret'.val.Certificates[1] =
                        [certFile |-> tls.Certificate[1], keyFile |-> tls.PrivateKey[1]]
      ]_vars

\* An enabled cycle that returned a policy with its certificate pair.
C8_Witness ==
    /\ ret.op = "Tls" /\ ret.err = NilErr /\ TlsIsEnabled
    /\ Len(ret.val.Certificates) = 1

\* C9: with TLS disabled (TlsEnabled false or absent) TlsConfigLoader.Update
\* returns no error and a non-nil policy with an empty certificate chain,
\* whatever the other fields hold; and every snapshot that
\* HttpServerLoader.Update returns without error has a non-nil TlsConf.
C9_DisabledIsAPolicy ==
    [][ /\ (Called("Tls") /\ ~TlsIsEnabled)
              => (ret'.err = NilErr /\ ~ret'.val.nil /\ ret'.val.Certificates = <<>>)
        /\ (Called("Http") /\ ~ret'.panic /\ ret'.err = NilErr)
              => ~ret'.val.TlsConf.nil
        /\ (Called("Http") /\ ~ret'.panic /\ ret'.err = NilErr /\ ~TlsIsEnabled)
              => ret'.val.TlsConf.Certificates = <<>>
      ]_vars

\* HttpServerLoader.Update has returned a snapshot made with TLS disabled
\* while certificate, key and server name were all configured.
C9_Witness ==
    /\ ret.op = "Http" /\ ~ret.panic /\ ret.err = NilErr
    /\ tls.TlsEnabled \in {None, Some(FALSE)}
    /\ TlsFilesConfigured /\ IsSome(tls.ServerName)
    /\ ~ret.val.TlsConf.nil /\ ret.val.TlsConf.Certificates = <<>>

\* The policy choices every policy is to carry.
FixedPolicy(p) ==
    /\ p.MinVersion = "VersionTLS13"
    /\ p.CurvePreferences = <<"CurveP521", "CurveP384", "CurveP256">>
    /\ p.CipherSuites = << "TLS_ECDHE_RSA_WITH_AES_256_GCM_SHA384",
                           "TLS_ECDHE_RSA_WITH_AES_256_CBC_SHA",
                           "TLS_RSA_WITH_AES_256_GCM_SHA384",
                           "TLS_RSA_WITH_AES_256_CBC_SHA" >>

\* C10: every policy TlsConfigLoader.Update returns or caches, enabled or
\* disabled and whatever the loader's fields, has minimum version TLS 1.3 and
\* the same curve preference order and cipher suite list.
C10_FixedPolicyChoices ==
    /\ (ret.op = "Tls" /\ ret.err = NilErr) => FixedPolicy(ret.val)
    /\ (ret.op = "Http" /\ ~ret.panic /\ ret.err = NilErr) => FixedPolicy(ret.val.TlsConf)
    /\ ~tls.prev.nil => FixedPolicy(tls.prev)
    /\ ~http.prev.TlsConf.nil => FixedPolicy(http.prev.TlsConf)

\* A disabled policy is held by an earlier snapshot and an enabled policy,
\* built from fields that set a server name and skip verification, has just
\* been returned.
C10_Witness ==
    /\ ~http.prev.TlsConf.nil /\ http.prev.TlsConf.Certificates = <<>>
    /\ ret.op = "Tls" /\ ret.err = NilErr /\ Len(ret.val.Certificates) = 1
    /\ ret.val.InsecureSkipVerify /\ ret.val.ServerName # ""

-----------------------------------------------------------------------------
(* Properties of the layered resolution in the generated loaders.          *)

\* The first present value of a sequence of options, else the default.
RECURSIVE FirstPresent(_, _)
FirstPresent(options, default) ==
    IF options = <<>> THEN default
    ELSE IF IsSome(Head(options)) THEN Head(options)[1]
    ELSE FirstPresent(Tail(options), default)

\* The value of field f in the snapshot of the last successful cycle of a
\* loader, absent when no cycle has succeeded.
Previously(l, zero, f) == IF l.previous # zero THEN Some(l.previous[f]) ELSE None

\* The step is an Update that resolved a MyDBConfig: c' is the snapshot.
DBResolves(P(_)) ==
    /\ (Called("MyDB") => P(ret'.val))
    /\ (Called("MyApp") /\ ~ret'.panic /\ ret'.err = NilErr => P(ret'.val.MyDB))

\* The step is an Update that resolved a MyServiceConfig.
ServiceResolves(P(_)) ==
    /\ (Called("MyService") /\ ~ret'.panic /\ ret'.err = NilErr => P(ret'.val))
    /\ (Called("MyApp") /\ ~ret'.panic /\ ret'.err = NilErr => P(ret'.val.MyService))

C4_SecondCycle ==
    /\ Called("MyDB")
    /\ ret.op = "MyDB"
    /\ ret.read[1].flags.myDBPort = Some(9090)
    /\ ret.read[1].Port = Some(8080)
    /\ flags = [ret.read[1].flags EXCEPT !.myDBPort = None]
    /\ db = MyDBConfigLoaderUpdate(
                [Address |-> ret.read[1].Address, Port |-> ret.read[1].Port,
                 previous |-> db.previous], ret.read[1].flags).l
    /\ db.previous = ret.val

\* The first of the two cycles.
C4_FirstCycle ==
    /\ Called("MyDB")
    /\ flags.myDBPort = Some(9090)
    /\ db.Port = Some(8080)

-----------------------------------------------------------------------------
(* Properties of a resolution cycle of the loader tree, under Spec.        *)

ErrName == "MyServiceConfig missing required field: Name"

ErrSecretKey == "MyServiceConfig missing required field: SecretKey"

ErrNodeID == "MyServiceConfig missing required field: NodeID"

\* The step is an Update of MyServiceConfigLoader, called directly or by
\* MyAppConfigLoader.Update.
ServiceCalled == Called("MyService") \/ Called("MyApp")

\* The MyServiceConfig in what that call returned.
ServiceSnapshot(r) == IF r.op = "MyApp" THEN r.val.MyService ELSE r.val

\* The secret key file that a cycle starting now reads can be read.
SecretReadable ==
    IF IsNone(svc.SecretKey) THEN DefaultMyServiceConfigSecretKey \in fs.secrets
    ELSE svc.SecretKey[1] \in fs.secrets

\* C1 as claimed: when the nested ServerConfig.Update returns an error during
\* an Update of MyServiceConfigLoader or MyAppConfigLoader, that Update
\* returns an error too; an Update that returns no error returns the
\* ServerConfig of a successful nested Update.
C1_SubLoaderFailureFailsCycle ==
    [][ (ServiceCalled /\ ~ret'.panic /\ SecretReadable) =>
          LET sub == HttpServerLoaderUpdate(http, tls, fs)
          IN  /\ sub.err # NilErr => ret'.err # NilErr
              /\ ret'.err = NilErr =>
                    (sub.err = NilErr /\ ServiceSnapshot(ret').ServerConfig = sub.result)
      ]_vars

\* C2 as claimed: an Update of MyServiceConfigLoader or MyAppConfigLoader
\* made while Name is absent returns an error naming Name and leaves the
\* cached snapshots as they were.
C2_MissingNameIsNamed ==
    [][ (ServiceCalled /\ svc.Name = None) =>
          /\ ~ret'.panic /\ ret'.err = ErrName
          /\ svc'.previous = svc.previous
          /\ app'.previous = app.previous
      ]_vars

\* C2 amended: such an Update never succeeds and leaves the cached snapshots
\* as they were. The secret key file is read first: when it cannot be read
\* the error names SecretKey. Otherwise ServerConfig.Update runs next, and
\* the call either panics there (Tls unset) or returns the error naming Name.
C2_MissingNameFails ==
    [][ (ServiceCalled /\ svc.Name = None) =>
          /\ ~SecretReadable => (~ret'.panic /\ ret'.err = ErrSecretKey)
          /\ SecretReadable => (ret'.panic \/ ret'.err = ErrName)
          /\ (SecretReadable /\ ret'.panic) =>
                (http.Tls = "nil" /\ HttpServerLoaderUpdate(http, tls, fs).panic)
          /\ svc'.previous = svc.previous
          /\ app'.previous = app.previous
      ]_vars

\* After a successful cycle Name was cleared, and the next
\* MyServiceConfigLoader.Update returned the error naming Name; the cached
\* snapshot is the one of the successful cycle.
C2_Witness ==
    /\ ret.op = "MyService" /\ ~ret.panic /\ ret.err = ErrName
    /\ svc.Name = None
    /\ svc.previous # ZeroMyServiceConfig
    /\ ret.val = ZeroMyServiceConfig

C6_NodeIDRequired ==
    [][ (Called("MyService") /\ ~ret'.panic
           /\ flags.myServiceNode = None /\ svc.NodeID = None) =>
          /\ ret'.err # NilErr
          /\ (SecretReadable /\ svc.Name # None) => ret'.err = ErrNodeID
      ]_vars

-----------------------------------------------------------------------------
(* Properties of the policy objects, under SpecPolicy.                     *)

\* C11: each successful TlsConfigLoader.Update builds its policy in a new
\* object, at an address that no earlier object has, and points the loader's
\* cache at it; every object an earlier cycle returned is, after any later
\* Update (successful or not), still there and unchanged.
C11_NewPolicyEachCycle ==
    [][ Called("Tls") =>
          /\ \A a \in DOMAIN heap.objs :
                a \in DOMAIN heap'.objs /\ heap'.objs[a] = heap.objs[a]
          /\ ret'.err = NilErr =>
                /\ heap'.ret \notin DOMAIN heap.objs
                /\ heap'.ret \in DOMAIN heap'.objs
                /\ heap'.objs[heap'.ret] = ret'.val
                /\ heap'.prev = heap'.ret
          /\ ret'.err # NilErr =>
                /\ heap'.ret = 0
                /\ heap'.prev = heap.prev ]_vars

\* Two cycles have succeeded with different fields: the caller of the first
\* still holds its policy, which differs from the one now cached.
C11_Witness ==
    /\ ret.op = "Tls" /\ ret.err = NilErr
    /\ Len(heap.objs) >= 2
    /\ heap.prev = Len(heap.objs)
    /\ heap.objs[1] # heap.objs[heap.prev]
    /\ heap.objs[heap.prev] = tls.prev

-----------------------------------------------------------------------------
(* Properties of flag registration, under SpecFlags.                       *)

\* Goroutine p has had a call of SetupMyAppConfigFlags return, directly or
\* inside NewLoader.
SetupReturned(p) == reg.pc[p] \in {"setup_done", "returned"}

\* C12: however the goroutines' calls of SetupMyAppConfigFlags and NewLoader
\* interleave, no flag is ever registered twice, and once any call of
\* SetupMyAppConfigFlags has returned (to its caller or inside NewLoader)
\* each of myServiceNode, myDBAddress and myDBPort has been registered
\* exactly once.
C12_FlagsRegisteredOnce ==
    /\ \A i \in DOMAIN FlagNames : reg.count[i] <= 1
    /\ (reg.done \/ \E p \in Callers : SetupReturned(p)) =>
           \A i \in DOMAIN FlagNames : reg.count[i] = 1

\* Every goroutine has come back from a call, one from
\* SetupMyAppConfigFlags and one from NewLoader.
C12_Witness ==
    /\ \A p \in Callers : reg.pc[p] = "returned"
    /\ \E p, q \in Callers : reg.fn[p] = "SetupMyAppConfigFlags" /\ reg.fn[q] = "NewLoader"
    /\ \A i \in DOMAIN FlagNames : reg.count[i] = 1

-----------------------------------------------------------------------------
(* Properties of HttpServerLoader.Update and NewHttpServer, under SpecHttp. *)

\* The step is a call of HttpServerLoader.Update that returned a snapshot.
HttpSucceeded == Called("Http") /\ ~ret'.panic /\ ret'.err = NilErr

\* C13: the server NewHttpServer returns has every field of the snapshot
\* it was built from: Addr is BindAddr:Port, and handler, TLS config, read
\* timeout, read-header timeout, max header bytes, error log and protocols
\* equal the snapshot's.
C13_ServerFromEveryField ==
    ~server.nil =>
        /\ server.Addr = server.from.BindAddr \o ":" \o FormatUint(server.from.Port)
        /\ server.Handler = server.from.handler
        /\ server.TLSConfig = server.from.TlsConf
        /\ server.ReadTimeout = server.from.readTimeout
        /\ server.ReadHeaderTimeout = server.from.readHeaderTimeout
        /\ server.MaxHeaderBytes = server.from.maxHeaderBytes
        /\ server.ErrorLog = server.from.errorLog
        /\ server.Protocols = server.from.Protos

\* The standard port of a URL scheme, 0 when it has none.
StandardPort(scheme) ==
    CASE scheme = "http" -> 80
      [] scheme = "https" -> 443
      [] OTHER -> 0

\* proto://hostname:port with the port left out when it is the standard one.
RemoteAddressFor(scheme, hostname, port) ==
    IF port = StandardPort(scheme)
    THEN scheme \o "://" \o hostname
    ELSE scheme \o "://" \o hostname \o ":" \o FormatUint(port)

\* C14: for a loader with Protocol set, the RemoteAddress of the snapshot is
\* proto://hostname:port, without the port exactly when the resolved port
\* is the standard port of the protocol, defaulted or set in BindPort.
C14_PortOmittedWhenStandard ==
    [][ HttpSucceeded /\ IsSome(http.Protocol) =>
          ret'.val.RemoteAddress =
              RemoteAddressFor(ProtoString(http.Protocol[1]), ret'.val.Hostname,
                               ret'.val.Port) ]_vars

ErrNoDefaultPort ==
    "Failed to update HttpServerLoader: BindPort unset, but protocol only has default ports for HTTP and HTTPS"

\* C15: with BindPort absent, an Update of a loader with Protocol HTTP that
\* returns a snapshot resolves Port 80, with Protocol HTTPS Port 443, and
\* with any other Protocol the Update returns the error about the missing
\* default port and the zero snapshot, does not panic, and leaves the loader
\* and the TLS sub-loader as they were.
C15_DefaultPorts ==
    [][ Called("Http") /\ IsNone(http.BindPort) /\ IsSome(http.Protocol) =>
          /\ HttpSucceeded /\ http.Protocol[1] = HTTP => ret'.val.Port = 80
          /\ HttpSucceeded /\ http.Protocol[1] = HTTPS => ret'.val.Port = 443
          /\ http.Protocol[1] \notin {HTTP, HTTPS} =>
                /\ ~ret'.panic
                /\ ret'.err = ErrNoDefaultPort
                /\ ret'.val = ZeroHttpServerConfig
                /\ tls' = tls
                /\ http' = http ]_vars

\* The protocol has no default port and the loader's Tls is nil: the call
\* has returned the error, where a call of Tls.Update would have panicked.
C15_Witness ==
    /\ ret.op = "Http" /\ ret.err = ErrNoDefaultPort /\ ~ret.panic
    /\ IsNone(http.BindPort) /\ http.Protocol = Some(HTTP2)
    /\ http.Tls = "nil"

\* The TLS sub-loader has TLS switched on.
HttpTlsEnabled == GetOr(tls.TlsEnabled, FALSE)

\* C16: with Protocol absent the snapshot is that of HTTPS when the TLS
\* sub-loader has TLS enabled and that of HTTP when it has not, as the
\* comment of the Protocol field (line 144) has it.
C16_ProtocolFollowsTls ==
    [][ HttpSucceeded /\ IsNone(http.Protocol) =>
          LET proto == IF HttpTlsEnabled THEN HTTPS ELSE HTTP
          IN  /\ ret'.val.Protos = GetHttpProtos(proto)
              /\ IsNone(http.BindPort) =>
                    /\ ret'.val.Port = StandardPort(ProtoString(proto))
                    /\ ret'.val.RemoteAddress =
                           ProtoString(proto) \o "://" \o ret'.val.Hostname ]_vars

\* What line 182 does in place of C16: with Protocol absent the snapshot is
\* that of HTTPS, whether the TLS sub-loader has TLS enabled or not: the
\* protocols of HTTPS, and with BindPort absent the port 443 and an
\* https:// RemoteAddress.
C16_ProtocolDefaultsToHttps ==
    [][ HttpSucceeded /\ IsNone(http.Protocol) =>
          /\ ret'.val.Protos = GetHttpProtos(HTTPS)
          /\ IsNone(http.BindPort) =>
                /\ ret'.val.Port = 443
                /\ ret'.val.RemoteAddress = "https://" \o ret'.val.Hostname
          /\ IsSome(http.BindPort) =>
                ret'.val.RemoteAddress =
                    "https://" \o ret'.val.Hostname \o ":" \o FormatUint(ret'.val.Port) ]_vars

\* An Update with Protocol and BindPort absent and TLS switched off has
\* returned an https snapshot on port 443 whose policy has no certificate.
C16_Witness ==
    /\ ret.op = "Http" /\ ret.err = NilErr /\ ~ret.panic
    /\ IsNone(http.Protocol) /\ IsNone(http.BindPort)
    /\ tls.TlsEnabled = Some(FALSE)
    /\ ret.val.Port = 443
    /\ ret.val.TlsConf.Certificates = <<>>
    /\ http.prev = ret.val

\* C17: with BindAddr absent the snapshot's BindAddr is 127.0.0.1, and with
\* Hostname absent too its Hostname is that same address.
C17_BindAddrDefaultsToLoopback ==
    [][ HttpSucceeded /\ IsNone(http.BindAddr) =>
          /\ ret'.val.BindAddr = "127.0.0.1"
          /\ IsNone(http.Hostname) => ret'.val.Hostname = "127.0.0.1" ]_vars

-----------------------------------------------------------------------------
(* Properties of package file and of Secret, under SpecLib.                *)

\* C18: file.MakeSecret(&normf) leaves normf absent, whether it held a path
\* or not, and Get on the SecretFile it returns gives exactly what Get on
\* normf gave before the call: the same path string, or absent.
C18_MakeSecretClearsSource ==
    [][ lib'.last = "MakeSecret" /\ lib' # lib =>
          /\ IsNone(lib'.normf)
          /\ Get(lib'.secretf, "") = Get(lib.normf, "") ]_vars

\* A File that held a path has been upgraded: the File is absent and the
\* SecretFile holds a path.
C18_Witness ==
    /\ lib.last = "MakeSecret"
    /\ IsNone(lib.normf)
    /\ IsSome(lib.secretf)

\* The Secrets a SecretFile can give: absent, or the contents of a file.
Secrets == {None} \cup {Some(SecretContents(p)) : p \in SecretPaths}

\* C19: what printing a Secret gives is the redaction literal, for a Secret
\* that is present and for one that is absent, and any two Secrets, whatever
\* they hold, render as the same string.
C19_SecretRendersRedacted ==
    /\ lib.last = "Print" => lib.printed = RedactionLiteral
    /\ lib.secret \in Secrets
    /\ \A s, t \in Secrets : SecretString(s) = SecretString(t)

\* The contents of a secret file have been read and printed.
C19_Witness ==
    /\ lib.last = "Print"
    /\ IsSome(lib.secret)
    /\ lib.secret[1] = SecretContents(DefaultMyServiceConfigSecretKey)
    /\ lib.printed = RedactionLiteral

-----------------------------------------------------------------------------
(* Properties of the precedence primitive, under Spec.                     *)

\* Options of the types the loaders use, by type, the zero values among them.
OptionValues ==
    << {None, Some(0), Some(9090), Some(8080)},
       {None, Some(""), Some("db.internal")},
       {None, Some(FALSE), Some(TRUE)} >>

\* C20: Or(a, b) is a whenever a is present, also when a holds a zero
\* value, and b whenever a is absent; and in the loaders every Update of
\* MyDBConfigLoader leaves in Address and Port the flag when the flag is
\* present and the field as it was when the flag is absent, and every Update
\* of MyServiceConfigLoader does so for NodeID.
C20_OrIsLeftBiased ==
    /\ [](\A i \in DOMAIN OptionValues : \A a, b \in OptionValues[i] :
             /\ IsSome(a) => Or(a, b) = a
             /\ IsNone(a) => Or(a, b) = b)
    /\ [][ (Called("MyDB") \/ (Called("MyApp") /\ ~ret'.panic /\ ret'.err = NilErr)) =>
             /\ IsSome(flags.myDBAddress) => db'.Address = flags.myDBAddress
             /\ IsNone(flags.myDBAddress) => db'.Address = db.Address
             /\ IsSome(flags.myDBPort) => db'.Port = flags.myDBPort
             /\ IsNone(flags.myDBPort) => db'.Port = db.Port ]_vars
    /\ [][ ServiceCalled =>
             /\ IsSome(flags.myServiceNode) => svc'.NodeID = flags.myServiceNode
             /\ IsNone(flags.myServiceNode) => svc'.NodeID = svc.NodeID ]_vars

\* A MyDBConfigLoader.Update has run with the port flag present and a
\* different Port in the loader: the field now holds the flag.
C20_Witness ==
    /\ ret.op = "MyDB" /\ IsSome(ret.read)
    /\ IsSome(ret.read[1].flags.myDBPort)
    /\ IsSome(ret.read[1].Port)
    /\ ret.read[1].Port # ret.read[1].flags.myDBPort
    /\ db.Port = ret.read[1].flags.myDBPort
    /\ IsNone(ret.read[1].flags.myDBAddress)
    /\ db.Address = ret.read[1].Address

-----------------------------------------------------------------------------
(* Properties of the caches and of the credential read, under SpecTls.     *)

\* The step is no call of an Update of the TLS or the HTTP loader.
NoTlsOrHttpCall == ~Called("Tls") /\ ~Called("Http")

\* C21: before any Update the caches of the TlsConfigLoader and of the
\* HttpServerLoader hold the nil policy and the empty config; a successful
\* Update of either leaves in that loader's cache exactly the value it
\* returned (a successful HttpServerLoader.Update also leaves the policy of
\* its snapshot in the TLS sub-loader's cache); a failed Update of either
\* leaves both caches as they were; and nothing else changes a cache. So
\* Previous() is always the value of the most recent successful Update.
C21_PreviousIsLastSuccess ==
    /\ [](ret = NoCall => tls.prev = NilTlsConfig /\ http.prev = ZeroHttpServerConfig)
    /\ [][ /\ Called("Tls") /\ ret'.err = NilErr =>
                tls'.prev = ret'.val /\ http'.prev = http.prev
           /\ Called("Http") /\ ~ret'.panic /\ ret'.err = NilErr =>
                http'.prev = ret'.val /\ tls'.prev = ret'.val.TlsConf
           /\ (Called("Tls") \/ Called("Http")) /\ ret'.err # NilErr =>
                tls'.prev = tls.prev /\ http'.prev = http.prev
           /\ NoTlsOrHttpCall =>
                tls'.prev = tls.prev /\ http'.prev = http.prev ]_vars

\* A cycle has failed after an earlier one succeeded: the caches still hold
\* the earlier policy.
C21_Witness ==
    /\ ret.op \in {"Tls", "Http"} /\ ret.err # NilErr
    /\ ~tls.prev.nil
    /\ tls.TlsEnabled = Some(TRUE)
    /\ tls.prev.Certificates = <<>>

\* C22: a TlsConfigLoader.Update reads the certificate and key files only in
\* a cycle with TLS enabled, certificate and key configured, and a server
\* name present or verification skipped; a cycle with TLS disabled and a
\* cycle that returns one of the two validation errors read nothing.
C22_CredentialReadAfterChecks ==
    [][ Called("Tls") =>
          /\ ret'.read[1].readCert =>
                /\ TlsIsEnabled
                /\ TlsFilesConfigured
                /\ IsSome(tls.ServerName) \/ tls.InsecureSkipVerify = Some(TRUE)
          /\ ~GetOr(tls.TlsEnabled, FALSE) => ~ret'.read[1].readCert
          /\ ret'.err \in { "TLS was enabled, but cert or key file was not set.",
                            "cannot make a valid tls config with enabled=true, insecureSkipVerify=false, serverName=None" } =>
                ~ret'.read[1].readCert ]_vars

\* A valid enabled cycle has read its credentials, and found them unusable.
C22_Witness ==
    /\ ret.op = "Tls" /\ IsSome(ret.read)
    /\ ret.read[1].readCert
    /\ ret.err = "KeyCertMismatch"

-----------------------------------------------------------------------------
(* Properties of failing cycles of the loader tree, under Spec.            *)

\* The zero snapshot of the loader whose Update was called.
ZeroSnapshot(op) ==
    CASE op = "Tls" -> NilTlsConfig
      [] op = "Http" -> ZeroHttpServerConfig
      [] op = "MyDB" -> ZeroMyDBConfig
      [] op = "MyService" -> ZeroMyServiceConfig
      [] op = "MyApp" -> ZeroMyAppConfig

\* C23: an Update of any of the five loaders that returns an error returns
\* with it the zero snapshot of its type: the nil policy for the
\* TlsConfigLoader, the empty struct for the others.
C23_ErrorComesWithZeroSnapshot ==
    (ret.op \in {"Tls", "Http", "MyDB", "MyService", "MyApp"} /\ ret.err # NilErr) =>
        ret.val = ZeroSnapshot(ret.op)

\* A MyAppConfigLoader.Update has failed after an earlier one succeeded: the
\* loader holds a snapshot and the call returned the empty one.
C23_Witness ==
    /\ ret.op = "MyApp" /\ ret.err # NilErr
    /\ app.previous # ZeroMyAppConfig
    /\ ret.val = ZeroMyAppConfig

-----------------------------------------------------------------------------
(* The loader tree driven through MyAppConfigLoader.Update only.           *)

NextApp ==
    \/ SetFlag(FlagValues)
    \/ SetFiles(TreeFileSystems)
    \/ SetTlsField(TreeTlsFieldValues)
    \/ SetHttpField(TreeHttpFieldValues)
    \/ SetServiceField(TreeServiceFieldValues)
    \/ SetDBField(DBFieldValues)
    \/ MyAppUpdate

SpecApp == Init /\ [][NextApp]_vars

\* C24: while the process runs, the cached snapshots of the tree agree:
\* MyAppConfigLoader.previous.MyService is MyService.previous,
\* MyService.previous.ServerConfig is ServerConfig.prev, and
\* ServerConfig.prev.TlsConf is the policy cached in the TLS sub-loader.
C24_CachesAgree ==
    Running =>
        /\ app.previous.MyService = svc.previous
        /\ svc.previous.ServerConfig = http.prev
        /\ http.prev.TlsConf = tls.prev

-----------------------------------------------------------------------------
(* Termination of NewLoader, under SpecFlags.                              *)

\* C25: a call of HttpServerLoader.Update, alone or as NewLoader drives it
\* through a zero MyAppConfigLoader, never panics: it comes back with a
\* snapshot or an error, also when the loader's Tls was never assigned.
C25_NoCrashOnUnsetTls ==
    ret.op \in {"Http", "NewLoader"} => ~ret.panic

-----------------------------------------------------------------------------
(* GetHttpProtos, under SpecHttp.                                          *)

\* The protocols C26 gives a protocol value.
ProtosFor(p) ==
    CASE p \in {HTTP, HTTPS} -> {"HTTP1"}
      [] p = HTTP2 -> {"HTTP2"}
      [] p = UNENCRYPTEDHTTP2 -> {"UnencryptedHTTP2"}
      [] OTHER -> {"HTTP1", "HTTP2"}

\* C26: the Protos of a snapshot, which Update takes from GetHttpProtos of
\* the loader's Protocol, enable HTTP/1 only for HTTP and for HTTPS, HTTP/2
\* only for HTTP2, unencrypted HTTP/2 only for UNENCRYPTEDHTTP2, and HTTP/1
\* with HTTP/2 for any other value.
C26_ProtosOfProtocol ==
    [][ HttpSucceeded /\ IsSome(http.Protocol) =>
          /\ ~ret'.val.Protos.nil
          /\ ret'.val.Protos.bits = ProtosFor(http.Protocol[1]) ]_vars

====
